---- MODULE Spec2Model ----
(***************************************************************************)
(* A model of the WaveFile container of src/src/wave_file.rs: construction *)
(* (WaveFile::new), add_bytes, bytes, to_bytes and file_to_data.           *)
(*                                                                         *)
(* A Vec<u8> is a sequence of naturals below 256.  u32 arithmetic is       *)
(* written with unbounded integers: with the parameters enumerated below   *)
(* no product or length reaches 2^31, so neither the debug build's         *)
(* overflow panic nor the release build's wrap-around can occur.           *)
(* A panic ends the run: the process is left in status "panicked" and no   *)
(* further operation is taken.                                             *)
(***************************************************************************)
EXTENDS Integers, Sequences, FiniteSets, TLC

VARIABLES audio_format, num_channels, sample_rate, bits_per_sample,
          byte_rate, block_align, audio_byte_data,
          status, ret, tick, appended

wave == <<audio_format, num_channels, sample_rate, bits_per_sample,
          byte_rate, block_align, audio_byte_data>>
vars == <<audio_format, num_channels, sample_rate, bits_per_sample,
          byte_rate, block_align, audio_byte_data,
          status, ret, tick, appended>>

\* ---------------------------------------------------------------- bounds
\* longest byte vector a caller hands to add_bytes
MaxChunk == 4
\* cap on the length of audio_byte_data (the Vec grows without bound)
MaxData == 6

\* ---------------------------------------------------------- input domains
ByteVals == {1, 255}
NumChannelsSet == {0, 1, 2}
SampleRateSet == {8000, 44100}
BitsPerSampleSet == {4, 8, 16, 24}

RECURSIVE SeqsOfLen(_)
SeqsOfLen(n) ==
  IF n = 0 THEN {<<>>}
  ELSE {Append(s, b) : s \in SeqsOfLen(n - 1), b \in ByteVals}

Chunks == UNION {SeqsOfLen(n) : n \in 0..MaxChunk}

\* ------------------------------------------------------------- constants
HeaderLen == 44
subchunk1_size == 16

\* AudioFormat::get_val: the single arm of the match yields 1
get_val == 1

\* ------------------------------------------------------- byte conversions
\* u32::to_le_bytes
to_le_bytes(x) ==
  << x % 256, (x \div 256) % 256, (x \div 65536) % 256, (x \div 16777216) % 256 >>

to_le_bytes2_4wide(x) == to_le_bytes(x)
\* to_le_bytes().into_iter().filter(first two).collect(): the low-order 2 bytes
to_le_bytes2(x) == SubSeq(to_le_bytes(x), 1, 2)

\* little-endian value of a byte sequence (reads a header field back)
RECURSIVE le_value(_)
le_value(s) == IF s = <<>> THEN 0 ELSE Head(s) + 256 * le_value(Tail(s))

\* String::as_bytes of the four literals
RIFF == <<82, 73, 70, 70>>
WAVE == <<87, 65, 86, 69>>
FMT  == <<102, 109, 116, 32>>
DATA == <<100, 97, 116, 97>>

\* --------------------------------------------------------- WaveFile::new
new_byte_rate(sr, nc, bps) == sr * nc * (bps \div 8)
new_block_align(nc, bps) == nc * (bps \div 8)

\* ---------------------------------------------------- WaveFile::add_bytes
PanicUnaligned == "Trying to add a chunck that does not fit evenly; this would cause un-aligned blocks."
PanicRemZero == "attempt to calculate the remainder with a divisor of zero"
PanicDivZero == "attempt to divide by zero"
PanicSlice == "range start index 44 out of range for slice"

\* the test of the if: bytes.len() as u32 % self.block_align != 0 (block_align > 0)
unaligned_nocheck(len, ba) == FALSE
unaligned_mod2(len, ba) == len % 2 # 0
unaligned(len, ba) == len % ba # 0

\* how the call ends: "ok" (returns ()) or "panic"
add_bytes_outcome(ba, bytes) ==
  IF ba = 0 THEN "panic"
  ELSE IF unaligned(Len(bytes), ba) THEN "panic" ELSE "ok"

add_bytes_msg(ba, bytes) ==
  IF ba = 0 THEN PanicRemZero
  ELSE IF unaligned(Len(bytes), ba) THEN PanicUnaligned ELSE ""

\* Vec::append(&mut self, other): other's elements go to the end of self
vec_append_front(data, bytes) == bytes \o data
vec_append(data, bytes) == data \o bytes

\* self.audio_byte_data when the call ends
add_bytes_data_early(data, ba, bytes) == vec_append(data, bytes)
add_bytes_data(data, ba, bytes) ==
  IF add_bytes_outcome(ba, bytes) = "ok" THEN vec_append(data, bytes) ELSE data

\* the caller's vector when the call ends: drained by Vec::append
add_bytes_arg_after(ba, bytes) ==
  IF add_bytes_outcome(ba, bytes) = "ok" THEN <<>> ELSE bytes

\* ----------------------------------------------------- WaveFile::to_bytes
to_bytes_panics(nc) == 2 * nc = 0

to_bytes_subchunk2_size(nc, bps, data) ==
  LET num_bytes_in_data == Len(data)
      num_samples == num_bytes_in_data \div (2 * nc)
  IN  num_samples * nc * (bps \div 8)

to_bytes_chunk_size(nc, bps, data) ==
  4 + (8 + subchunk1_size) + (8 + to_bytes_subchunk2_size(nc, bps, data))

to_bytes(af, nc, sr, bps, br, ba, data) ==
  RIFF \o to_le_bytes(to_bytes_chunk_size(nc, bps, data)) \o WAVE
  \o FMT \o to_le_bytes(subchunk1_size)
  \o to_le_bytes2(af) \o to_le_bytes2(nc)
  \o to_le_bytes(sr) \o to_le_bytes(br)
  \o to_le_bytes2(ba) \o to_le_bytes2(bps)
  \o DATA \o to_le_bytes(to_bytes_subchunk2_size(nc, bps, data))
  \o data

\* data.extend(&self.audio_byte_data) copies: the container keeps its bytes
to_bytes_data_drained(data) == <<>>
to_bytes_data(data) == data

\* ------------------------------------------------- WaveFile::file_to_data
file_to_data_panics(content) == Len(content) < HeaderLen

file_to_data_slice_short(content) == SubSeq(content, HeaderLen, Len(content))
\* file_content[44..].to_vec()
file_to_data_slice(content) == SubSeq(content, HeaderLen + 1, Len(content))

\* ------------------------------------------------------------ the caller
\* what the last call handed back: the operation, its argument, how it ended
\* ("ok", "err" for a returned Err, "panic"), the message and the value
Ret(op, arg, outcome, msg, value) ==
  [op |-> op, arg |-> arg, outcome |-> outcome, msg |-> msg, value |-> value]

Init ==
  /\ num_channels \in NumChannelsSet
  /\ sample_rate \in SampleRateSet
  /\ bits_per_sample \in BitsPerSampleSet
  /\ audio_format = get_val
  /\ byte_rate = new_byte_rate(sample_rate, num_channels, bits_per_sample)
  /\ block_align = new_block_align(num_channels, bits_per_sample)
  /\ audio_byte_data = <<>>
  /\ status = "running"
  /\ ret = Ret("new", <<>>, "ok", "", <<>>)
  /\ tick = 0
  /\ appended = <<>>

AddBytes(bytes) ==
  /\ status = "running"
  /\ add_bytes_outcome(block_align, bytes) = "ok"
       => /\ Len(audio_byte_data) + Len(bytes) <= MaxData
          /\ Len(appended) + Len(bytes) <= MaxData
  /\ audio_byte_data' = add_bytes_data(audio_byte_data, block_align, bytes)
  /\ ret' = Ret("add_bytes", bytes, add_bytes_outcome(block_align, bytes),
                add_bytes_msg(block_align, bytes),
                add_bytes_arg_after(block_align, bytes))
  /\ status' = IF add_bytes_outcome(block_align, bytes) = "ok"
               THEN "running" ELSE "panicked"
  /\ appended' = IF add_bytes_outcome(block_align, bytes) = "ok"
                 THEN appended \o bytes ELSE appended
  /\ tick' = 1 - tick
  /\ UNCHANGED <<audio_format, num_channels, sample_rate, bits_per_sample,
                 byte_rate, block_align>>

ToBytes ==
  /\ status = "running"
  /\ IF to_bytes_panics(num_channels)
     THEN /\ ret' = Ret("to_bytes", <<>>, "panic", PanicDivZero, <<>>)
          /\ status' = "panicked"
          /\ UNCHANGED audio_byte_data
     ELSE /\ ret' = Ret("to_bytes", <<>>, "ok", "",
                        to_bytes(audio_format, num_channels, sample_rate,
                                 bits_per_sample, byte_rate, block_align,
                                 audio_byte_data))
          /\ status' = "running"
          /\ audio_byte_data' = to_bytes_data(audio_byte_data)
  /\ tick' = 1 - tick
  /\ UNCHANGED <<audio_format, num_channels, sample_rate, bits_per_sample,
                 byte_rate, block_align, appended>>

\* The file read is the stream the caller last serialized, written out whole
\* or cut short after n bytes; exists = FALSE is a path with no file.
FileToData(exists, n) ==
  /\ status = "running"
  /\ ret.op = "to_bytes" /\ ret.outcome = "ok"
  /\ n \in 0..Len(ret.value)
  /\ ~exists => n = 0
  /\ LET file_content == SubSeq(ret.value, 1, n) IN
       IF ~exists
       THEN /\ ret' = Ret("file_to_data", <<>>, "err", "io", <<>>)
            /\ status' = "running"
       ELSE IF file_to_data_panics(file_content)
       THEN /\ ret' = Ret("file_to_data", file_content, "panic", PanicSlice, <<>>)
            /\ status' = "panicked"
       ELSE /\ ret' = Ret("file_to_data", file_content, "ok", "",
                          file_to_data_slice(file_content))
            /\ status' = "running"
  /\ tick' = 1 - tick
  /\ UNCHANGED <<wave, appended>>

\* bytes() hands out &mut Vec<u8>; the caller pushes one byte through it
BytesPush(v) ==
  /\ status = "running"
  /\ Len(audio_byte_data) < MaxData
  /\ audio_byte_data' = Append(audio_byte_data, v)
  /\ ret' = Ret("bytes", <<v>>, "ok", "", <<>>)
  /\ tick' = 1 - tick
  /\ UNCHANGED <<audio_format, num_channels, sample_rate, bits_per_sample,
                 byte_rate, block_align, status, appended>>

\* ... or shortens the vector through it (Vec::truncate)
BytesTruncate(n) ==
  /\ status = "running"
  /\ n < Len(audio_byte_data)
  /\ audio_byte_data' = SubSeq(audio_byte_data, 1, n)
  /\ ret' = Ret("bytes", <<>>, "ok", "", <<>>)
  /\ tick' = 1 - tick
  /\ UNCHANGED <<audio_format, num_channels, sample_rate, bits_per_sample,
                 byte_rate, block_align, status, appended>>

Next ==
  \/ \E bytes \in Chunks : AddBytes(bytes)
  \/ ToBytes
  \/ \E exists \in BOOLEAN, n \in 0..(HeaderLen + MaxData + 1) : FileToData(exists, n)

Spec == Init /\ [][Next]_vars

NextView ==
  \/ \E bytes \in Chunks : AddBytes(bytes)
  \/ ToBytes
  \/ \E v \in ByteVals : BytesPush(v)
  \/ \E n \in 0..MaxData : BytesTruncate(n)

\* the container of the documentation example: 2 channels, 44100 Hz, 16 bits
InitView ==
  /\ Init
  /\ num_channels = 2 /\ sample_rate = 44100 /\ bits_per_sample = 16

SpecView == InitView /\ [][NextView]_vars

TypeOK ==
  /\ status \in {"running", "panicked"}
  /\ tick \in {0, 1}
  /\ ret.outcome \in {"ok", "err", "panic"}

\* ------------------------------------------------------------ properties

\* C1 (as stated): an append whose length is not a multiple of block_align
\* (block_align > 0) comes back to the caller as a returned error value and
\* the caller can go on.
C1_MisalignedReturnsError ==
  (ret.op = "add_bytes" /\ block_align > 0 /\ Len(ret.arg) % block_align # 0)
    => (ret.outcome = "err" /\ status = "running")

\* C1 (amended): an append whose length is not a multiple of block_align
\* (block_align > 0) panics with the un-aligned-blocks message; the call does
\* not return and nothing is handed back to the caller.
C1_MisalignedPanics ==
  (ret.op = "add_bytes" /\ block_align > 0 /\ Len(ret.arg) % block_align # 0)
    => (ret.outcome = "panic" /\ ret.msg = PanicUnaligned /\ status = "panicked")

C1_Witness ==
  /\ ret.op = "add_bytes" /\ block_align > 1
  /\ Len(ret.arg) % block_align # 0
  /\ ret.outcome = "panic"

\* C2: a rejected append (length not a multiple of block_align > 0) leaves
\* audio_byte_data exactly as it was before the call: same length, same bytes.
C2_FailedAppendAtomic ==
  [][ (ret'.op = "add_bytes" /\ tick' # tick
       /\ block_align > 0 /\ Len(ret'.arg) % block_align # 0)
      => audio_byte_data' = audio_byte_data ]_vars

C2_Witness ==
  /\ ret.op = "add_bytes" /\ ret.outcome = "panic"
  /\ block_align > 1 /\ Len(ret.arg) % block_align # 0
  /\ audio_byte_data # <<>>

\* C3: on a container with block_align > 0 every append whose length is a
\* multiple of block_align succeeds, and the buffer always equals the
\* concatenation, in call order, of the arguments of the successful appends.
C3_BufferIsConcatenation ==
  block_align > 0 =>
    /\ audio_byte_data = appended
    /\ (ret.op = "add_bytes" /\ Len(ret.arg) % block_align = 0)
         => (ret.outcome = "ok" /\ status = "running")

C3_Witness ==
  /\ ret.op = "add_bytes" /\ ret.outcome = "ok" /\ block_align > 0
  /\ Len(ret.arg) > 0
  /\ Len(audio_byte_data) > Len(ret.arg)
  /\ audio_byte_data[1] # audio_byte_data[Len(audio_byte_data)]

\* C4: block_align keeps the value computed at construction, and when it is
\* positive the length of audio_byte_data is a multiple of it in every state
\* reached by appends (aligned or not) and serializations.
C4_AlignmentInvariant ==
  /\ block_align = num_channels * (bits_per_sample \div 8)
  /\ block_align > 0 => Len(audio_byte_data) % block_align = 0

C4_Witness ==
  /\ block_align > 1 /\ Len(audio_byte_data) > 0
  /\ ret.op = "add_bytes" /\ ret.outcome = "panic"

\* C5: with the writes a caller makes through bytes() included, the length of
\* audio_byte_data is still a multiple of block_align (block_align > 0).
C5_NoPartialFrames ==
  block_align > 0 => Len(audio_byte_data) % block_align = 0

\* C6: for a 16-bit container with at least one channel, file_to_data applied
\* to the whole output of to_bytes returns exactly audio_byte_data.
C6_RoundTrip ==
  (/\ ret.op = "file_to_data"
   /\ bits_per_sample = 16 /\ num_channels >= 1
   /\ ret.arg = to_bytes(audio_format, num_channels, sample_rate,
                         bits_per_sample, byte_rate, block_align,
                         audio_byte_data))
    => (ret.outcome = "ok" /\ ret.value = audio_byte_data)

C6_Witness ==
  /\ ret.op = "file_to_data" /\ ret.outcome = "ok"
  /\ bits_per_sample = 16 /\ num_channels = 2
  /\ Len(ret.arg) = 44 + Len(audio_byte_data)
  /\ Len(audio_byte_data) >= 4
  /\ ret.value = audio_byte_data

\* C7: file_to_data on a file shorter than 44 bytes hands back an error value
\* and the caller goes on; on a file of 44 bytes or more it succeeds.
C7_ShortInputReturnsError ==
  (ret.op = "file_to_data" /\ ret.msg # "io") =>
    IF Len(ret.arg) < 44
    THEN ret.outcome = "err" /\ status = "running"
    ELSE ret.outcome = "ok"

\* C8: when bits_per_sample is a positive multiple of 8, the little-endian
\* field at offset 40 of the output of to_bytes equals Len(audio_byte_data).
C8_Subchunk2SizeIsByteCount ==
  (/\ ret.op = "to_bytes" /\ ret.outcome = "ok"
   /\ bits_per_sample > 0 /\ bits_per_sample % 8 = 0)
    => le_value(SubSeq(ret.value, 41, 44)) = Len(audio_byte_data)

\* C9: the output of to_bytes is 44 + Len(audio_byte_data) bytes long and
\* carries audio_byte_data verbatim from offset 44 on, whatever the parameters.
C9_OutputLength ==
  (ret.op = "to_bytes" /\ ret.outcome = "ok") =>
    /\ Len(ret.value) = 44 + Len(audio_byte_data)
    /\ SubSeq(ret.value, 45, Len(ret.value)) = audio_byte_data

C9_Witness ==
  /\ ret.op = "to_bytes" /\ ret.outcome = "ok"
  /\ Len(audio_byte_data) > 0
  /\ bits_per_sample = 24 /\ num_channels = 1

\* C10: to_bytes leaves every field of the container unchanged; a second
\* to_bytes right after a first returns the same bytes; an aligned append
\* made after a to_bytes succeeds, and each to_bytes carries the bytes the
\* container holds at that moment.
C10_SerializeIsPureRead ==
  [][ /\ (ret'.op = "to_bytes" /\ tick' # tick) =>
           /\ UNCHANGED wave
           /\ ret'.outcome = "ok" =>
                SubSeq(ret'.value, 45, Len(ret'.value)) = audio_byte_data'
           /\ (ret.op = "to_bytes" /\ ret.outcome = "ok") =>
                (ret'.outcome = "ok" /\ ret'.value = ret.value)
      /\ (/\ ret.op = "to_bytes" /\ ret.outcome = "ok"
          /\ ret'.op = "add_bytes" /\ tick' # tick
          /\ block_align > 0 /\ Len(ret'.arg) % block_align = 0) =>
           /\ ret'.outcome = "ok" /\ status' = "running"
           /\ audio_byte_data' = audio_byte_data \o ret'.arg
    ]_vars

C10_Witness ==
  /\ ret.op = "to_bytes" /\ ret.outcome = "ok"
  /\ Len(audio_byte_data) > block_align /\ block_align > 0
  /\ SubSeq(ret.value, 45, Len(ret.value)) = audio_byte_data
====
